---- MODULE Spec2Model ----
(***************************************************************************)
(* A model of three modules of qoc:                                        *)
(*   qoc/standard/costs/forbidstates.py  (ForbidStates, specification Spec)*)
(*   qoc/standard/constants.py           (SpecConstants)                   *)
(*   qoc/util/extend.py                  (SpecJacobian)                    *)
(* Real numbers are exact: a rational is <<n, d>> in lowest terms, d > 0;  *)
(* <<0, 0>> is NaN.  A complex array is an integer Gaussian matrix m with  *)
(* a common factor 1/sqrt(nsq), so that [1,1]^T/sqrt(2) is exact.          *)
(* Floating-point rounding is not modelled.                                *)
(***************************************************************************)
EXTENDS Integers, Sequences, FiniteSets, TLC

(* ------------------------------ bounds --------------------------------- *)
MaxN == 2          \* evolving states of an instance (len(forbidden_states))
MaxM == 2          \* forbidden states per evolving state
MaxStates == 2     \* length of the states array passed to cost

(* --------------------------- exact rationals --------------------------- *)
Abs(x) == IF x < 0 THEN -x ELSE x

RECURSIVE GCD(_, _)
GCD(a, b) == IF b = 0 THEN a ELSE GCD(b, a % b)

NaN == <<0, 0>>
IsNaN(x) == x[2] = 0

Rat(n, d) ==
    IF d = 0 THEN NaN
    ELSE LET g == GCD(Abs(n), Abs(d))
             s == IF d < 0 THEN -1 ELSE 1
         IN  <<(s * n) \div g, (s * d) \div g>>

IntRat(n) == <<n, 1>>
Zero == IntRat(0)

RAdd(x, y) == IF IsNaN(x) \/ IsNaN(y) THEN NaN
              ELSE Rat(x[1] * y[2] + y[1] * x[2], x[2] * y[2])
RMul(x, y) == IF IsNaN(x) \/ IsNaN(y) THEN NaN
              ELSE Rat(x[1] * y[1], x[2] * y[2])
\* numpy division: 0/0 is nan (a warning, no exception).  A nonzero
\* numerator over zero never arises here (see cost) and is folded into NaN.
RDiv(x, y) == IF IsNaN(x) \/ IsNaN(y) \/ y[1] = 0 THEN NaN
              ELSE Rat(x[1] * y[2], x[2] * y[1])

(* --------------------------- complex arrays ---------------------------- *)
\* a Gaussian integer is <<re, im>>
CAdd(a, b) == <<a[1] + b[1], a[2] + b[2]>>
CMul(a, b) == <<a[1] * b[1] - a[2] * b[2], a[1] * b[2] + a[2] * b[1]>>
CConj(a) == <<a[1], -a[2]>>

Rows(A) == Len(A.m)
Cols(A) == Len(A.m[1])

\* a column vector (d x 1) with entries v[k] / sqrt(nsq)
Column(v, nsq) == [m |-> [r \in 1..Len(v) |-> <<v[r]>>], nsq |-> nsq]

state0 == Column(<< <<1, 0>>, <<0, 0>> >>, 1)
state1 == Column(<< <<0, 0>>, <<1, 0>> >>, 1)
forbid0_0 == Column(<< <<1, 0>>, <<0, 0>> >>, 1)
forbid0_1 == Column(<< <<1, 0>>, <<1, 0>> >>, 2)
forbid1_0 == Column(<< <<1, 0>>, <<1, 0>> >>, 2)
forbid1_1 == Column(<< <<0, 1>>, <<0, 1>> >>, 2)
test_states == <<state0, state1>>
test_forbidden_states == << <<forbid0_0, forbid0_1>>, <<forbid1_0, forbid1_1>> >>
test_step_count == 10
default_cost_multiplier == IntRat(1)

\* the conjugate transpose of one matrix: swap the last two axes, conjugate
dagger(A) ==
    [m |-> [c \in 1..Cols(A) |-> [r \in 1..Rows(A) |-> CConj(A.m[r][c])]],
     nsq |-> A.nsq]

\* qoc.standard.functions.conjugate_transpose on the nested forbidden states
conjugate_transpose(forbidden_states) ==
    [i \in 1..Len(forbidden_states) |->
        [j \in 1..Len(forbidden_states[i]) |-> dagger(forbidden_states[i][j])]]

RECURSIVE DotFrom(_, _, _, _, _)
DotFrom(A, B, r, c, k) ==
    IF k > Cols(A) THEN <<0, 0>>
    ELSE CAdd(CMul(A.m[r][k], B.m[k][c]), DotFrom(A, B, r, c, k + 1))

matmul(A, B) ==
    [m |-> [r \in 1..Rows(A) |-> [c \in 1..Cols(B) |-> DotFrom(A, B, r, c, 1)]],
     nsq |-> A.nsq * B.nsq]

\* anp.square(anp.abs(A[0,0])): |z|^2 of the top-left entry
square_abs_00(A) ==
    LET z == A.m[1][1] IN Rat(z[1] * z[1] + z[2] * z[2], A.nsq)

(* ----------------------------- ndarrays -------------------------------- *)
\* a real array: its shape and its entries in row-major order
RECURSIVE Product(_)
Product(shape) == IF shape = <<>> THEN 1 ELSE Head(shape) * Product(Tail(shape))

Arange(shape) == [shape |-> shape, data |-> [k \in 1..Product(shape) |-> k]]

zeros_like(a) == [shape |-> a.shape, data |-> [k \in DOMAIN a.data |-> 0]]

(* ---------------------------- ForbidStates ----------------------------- *)
VARIABLES
    fs,        \* a ForbidStates instance (its fields)
    fs_k,      \* a second instance: same forbidden_states and step_count,
               \* cost_multiplier scaled by the factor scale
    scale,     \* the factor k between the two cost multipliers
    states,    \* the caller's array of evolved states
    ret,       \* ret[n]: what cost returned on instance n for the current states
    grad       \* the last dcost_dparams call: the params passed and the result

fsVars == <<fs, fs_k, scale, states, ret, grad>>

VARIABLES
    size,                  \* the size passed to the operator constructors
    creation_operator,     \* what get_creation_operator(size) returned
    annihilation_operator, \* what get_annihilation_operator(size) returned
    eij                    \* the last get_eij(i, j, size) call

constVars == <<size, creation_operator, annihilation_operator, eij>>

VARIABLES
    fun,       \* the function ans_jacobian differentiates
    arg,       \* the argument x it is differentiated at
    jac        \* what ans_jacobian(fun)(arg) returned

jacVars == <<fun, arg, jac>>

vars == <<fsVars, constVars, jacVars>>

ForbidStates_init(forbidden_states, step_count, cost_multiplier) ==
    [cost_multiplier |-> cost_multiplier,
     forbidden_states_dagger |-> conjugate_transpose(forbidden_states),
     state_normalization_constants |->
        [i \in 1..Len(forbidden_states) |-> Len(forbidden_states[i])],
     step_normalization_constant |-> step_count,
     total_state_normalization_constant |-> Len(forbidden_states)]

\* np.zeros(params.size) in place of np.zeros_like(params)
dcost_dparams_flat(self, params, states_, step) ==
    [shape |-> <<Product(params.shape)>>, data |-> [k \in DOMAIN params.data |-> 0]]

\* lines 52-53: the lambda stored in self.dcost_dparams
dcost_dparams(self, params, states_, step) == zeros_like(params)

\* the loop with state_cost accumulated: state_cost = state_cost + fidelity
RECURSIVE forbidden_loop_accumulating(_, _, _, _, _)
forbidden_loop_accumulating(state_forbidden_states_dagger, state, cost_, j, state_cost) ==
    IF j > Len(state_forbidden_states_dagger) THEN state_cost
    ELSE forbidden_loop_accumulating(state_forbidden_states_dagger, state, cost_, j + 1,
            RAdd(state_cost,
                 square_abs_00(matmul(state_forbidden_states_dagger[j], state))))

\* lines 77-79: the loop over the forbidden states of one evolving state;
\* each pass assigns state_cost = cost + fidelity
RECURSIVE forbidden_loop(_, _, _, _, _)
forbidden_loop(state_forbidden_states_dagger, state, cost_, j, state_cost) ==
    IF j > Len(state_forbidden_states_dagger) THEN state_cost
    ELSE forbidden_loop(state_forbidden_states_dagger, state, cost_, j + 1,
            RAdd(cost_, square_abs_00(matmul(state_forbidden_states_dagger[j], state))))

Returned(v) == [exc |-> "none", val |-> v]
Raised(e) == [exc |-> e, val |-> Zero]
NotCalled == [exc |-> "not called", val |-> Zero]

\* lines 74-82: the loop over the evolving states; states[i] raises IndexError
\* when the states array has no entry i
RECURSIVE state_loop(_, _, _, _)
state_loop(self, states_, i, cost_) ==
    IF i > Len(self.forbidden_states_dagger) THEN Returned(cost_)
    ELSE IF i > Len(states_) THEN Raised("IndexError")
    ELSE LET state_cost == forbidden_loop(self.forbidden_states_dagger[i],
                                          states_[i], cost_, 1, Zero)
         IN  state_loop(self, states_, i + 1,
                RAdd(cost_, RDiv(state_cost,
                                 IntRat(self.state_normalization_constants[i]))))

\* cost returned without the multiplier applied
cost_unweighted(self, params, states_, step) ==
    LET r == state_loop(self, states_, 1, Zero)
    IN  IF r.exc # "none" THEN r
        ELSE Returned(RDiv(r.val, IntRat(self.total_state_normalization_constant
                                         * self.step_normalization_constant)))

\* cost normalized by the step passed in, not by the step count
cost_per_step(self, params, states_, step) ==
    LET r == state_loop(self, states_, 1, Zero)
    IN  IF r.exc # "none" THEN r
        ELSE Returned(RMul(self.cost_multiplier,
                 RDiv(r.val, IntRat(self.total_state_normalization_constant
                                    * (step + 1)))))

\* lines 62-89
cost(self, params, states_, step) ==
    LET r == state_loop(self, states_, 1, Zero)
    IN  IF r.exc # "none" THEN r
        ELSE Returned(RMul(self.cost_multiplier,
                 RDiv(r.val, IntRat(self.total_state_normalization_constant
                                    * self.step_normalization_constant))))

(* ------------------------------ constants ------------------------------ *)
MaxSize == 4       \* size of the operators

\* the real number sqrt(k), kept exact; RealSqrt(0) is 0
RealSqrt(k) == [sqrt_of |-> k]

jnp_arange(start, stop) == [k \in 1..(stop - start) |-> start + k - 1]
jnp_sqrt(v) == [k \in DOMAIN v |-> RealSqrt(v[k])]

\* jnp.diag(v, k): v[i] at (i, i + k) for k >= 0 and at (i - k, i) for k < 0,
\* in a square matrix of side len(v) + |k|
jnp_diag(v, k) ==
    LET n == Len(v) + Abs(k)
    IN  [r \in 1..n |-> [c \in 1..n |->
            IF c - r = k THEN v[IF k >= 0 THEN r ELSE c] ELSE RealSqrt(0)]]

get_creation_operator(size_) == jnp_diag(jnp_sqrt(jnp_arange(1, size_)), -1)

\* the annihilation operator built on the sub-diagonal, as the creation operator is
get_annihilation_operator_subdiagonal(size_) ==
    jnp_diag(jnp_sqrt(jnp_arange(1, size_)), -1)

get_annihilation_operator(size_) == jnp_diag(jnp_sqrt(jnp_arange(1, size_)), 1)

jnp_zeros(n) == [r \in 1..n |-> [c \in 1..n |-> 0]]

\* eij[i, j] = value on a jax array: jax arrays are immutable, item assignment
\* raises TypeError and leaves the array as it was
jax_setitem(array, i, j, value) == [exc |-> "TypeError", array |-> array]

get_eij(i, j, size_) ==
    LET zeros == jnp_zeros(size_)
        assigned == jax_setitem(zeros, i, j, 1)
    IN  IF assigned.exc # "none" THEN [exc |-> assigned.exc, val |-> <<>>]
        ELSE [exc |-> "none", val |-> assigned.array]

NotComputed == <<>>
NoEij == [called |-> FALSE, i |-> 0, j |-> 0, exc |-> "none", val |-> <<>>]

ConstantsUnused ==
    /\ size = 1
    /\ creation_operator = NotComputed
    /\ annihilation_operator = NotComputed
    /\ eij = NoEij

(* ------------------------------ jacobian ------------------------------- *)
MaxLen == 2        \* length of the argument x

RECURSIVE SumTo(_, _)
SumTo(s, n) == IF n = 0 THEN 0 ELSE s[n] + SumTo(s, n - 1)
Sum(s) == SumTo(s, Len(s))
Squares(s) == [k \in DOMAIN s |-> s[k] * s[k]]

\* the differentiable functions: each with its value and with the
\* vector-Jacobian product autograd derives for it
Functions == {"square", "sum_squares", "moments"}

\* "square": x ** 2;  "sum_squares": anp.sum(x ** 2);
\* "moments": anp.array([anp.sum(x), anp.sum(x ** 2)])
Apply(f, x_) ==
    CASE f = "square" -> [shape |-> x_.shape, data |-> Squares(x_.data)]
      [] f = "sum_squares" -> [shape |-> <<>>, data |-> <<Sum(Squares(x_.data))>>]
      [] f = "moments" ->
            [shape |-> <<2>>, data |-> <<Sum(x_.data), Sum(Squares(x_.data))>>]

\* the gradient of <g, f(x)> with respect to x
VJP(f, x_, g) ==
    [shape |-> x_.shape,
     data |-> [k \in DOMAIN x_.data |->
        CASE f = "square" -> g.data[k] * 2 * x_.data[k]
          [] f = "sum_squares" -> g.data[1] * 2 * x_.data[k]
          [] f = "moments" -> g.data[1] + g.data[2] * 2 * x_.data[k]]]

\* vspace(a).shape
vspace_shape(a) == a.shape

\* vspace.standard_basis(): one array per index of the shape, in
\* np.ndindex (row-major) order, 1 at that index and 0 elsewhere
standard_basis(shape) ==
    [b \in 1..Product(shape) |->
        [shape |-> shape,
         data |-> [k \in 1..Product(shape) |-> IF k = b THEN 1 ELSE 0]]]

RECURSIVE Concat(_, _)
Concat(arrays, from) ==
    IF from > Len(arrays) THEN <<>>
    ELSE arrays[from].data \o Concat(arrays, from + 1)

np_stack(arrays) ==
    [shape |-> <<Len(arrays)>> \o arrays[1].shape, data |-> Concat(arrays, 1)]

np_reshape(a, shape) ==
    IF Product(shape) = Len(a.data)
    THEN [exc |-> "none", shape |-> shape, data |-> a.data]
    ELSE [exc |-> "ValueError", shape |-> a.shape, data |-> a.data]

\* the Jacobian laid out input dimensions first
ans_jacobian_input_first(function, argnum) ==
    LET ans == Apply(function, argnum)
        ans_shape == vspace_shape(ans)
        jacobian_shape == vspace_shape(argnum) \o ans_shape
        basis == standard_basis(ans_shape)
        grads == [b \in DOMAIN basis |-> VJP(function, argnum, basis[b])]
    IN  [ans |-> ans, jacobian |-> np_reshape(np_stack(grads), jacobian_shape)]

\* lines 31-35; under unary_to_nary the parameter argnum is bound to the
\* value of the argument that is differentiated
ans_jacobian(function, argnum) ==
    LET ans == Apply(function, argnum)
        ans_shape == vspace_shape(ans)
        jacobian_shape == ans_shape \o vspace_shape(argnum)
        basis == standard_basis(ans_shape)
        grads == [b \in DOMAIN basis |-> VJP(function, argnum, basis[b])]
    IN  [ans |-> ans, jacobian |-> np_reshape(np_stack(grads), jacobian_shape)]

JacobianUnused ==
    /\ fun = "square"
    /\ arg = [shape |-> <<>>, data |-> <<0>>]
    /\ jac = NotComputed

(* inputs: the forbidden lists are built from one vector, the states from   *)
(* two, so that the fidelities 0 and 1 both occur; the data of _test adds   *)
(* the fidelity 1/2 and a complex forbidden state                           *)
RECURSIVE SeqsUpTo(_, _)
SeqsUpTo(S, n) ==
    IF n = 0 THEN {<<>>}
    ELSE LET shorter == SeqsUpTo(S, n - 1)
         IN  shorter \cup {Append(s, x) : s \in {t \in shorter : Len(t) = n - 1}, x \in S}

ForbiddenVectors == {forbid0_0}
StateVectors == {state0, state1}
ForbiddenInputs ==
    (SeqsUpTo(SeqsUpTo(ForbiddenVectors, MaxM), MaxN) \ {<<>>})
        \cup {test_forbidden_states}
StepCounts == {1, test_step_count}
CostMultipliers == {default_cost_multiplier, <<3, 2>>}
ScaleFactors == {IntRat(2)}
StatesInputs == SeqsUpTo(StateVectors, MaxStates) \ {<<>>}
ParamsInputs == {Arange(<<>>), Arange(<<2>>), Arange(<<1, 2>>)}
Steps == {0, 1}
NoGrad == [called |-> FALSE, params |-> Arange(<<>>), out |-> Arange(<<>>)]

Instance(n) == IF n = 1 THEN fs ELSE fs_k

Init ==
    /\ \E forbidden_states \in ForbiddenInputs, step_count \in StepCounts,
          c \in CostMultipliers, k \in ScaleFactors :
          /\ fs = ForbidStates_init(forbidden_states, step_count, c)
          /\ fs_k = ForbidStates_init(forbidden_states, step_count, RMul(k, c))
          /\ scale = k
    /\ states \in StatesInputs
    /\ ret = [n \in 1..2 |-> NotCalled]
    /\ grad = NoGrad
    /\ ConstantsUnused /\ JacobianUnused

\* the caller evolves the states to the next time step
Evolve ==
    /\ \E s \in StatesInputs : states' = s
    /\ ret' = [n \in 1..2 |-> NotCalled]
    /\ grad' = NoGrad
    /\ UNCHANGED <<fs, fs_k, scale, constVars, jacVars>>

Cost ==
    \E n \in 1..2, params \in ParamsInputs, step \in Steps :
        /\ ret' = [ret EXCEPT ![n] = cost(Instance(n), params, states, step)]
        /\ UNCHANGED <<fs, fs_k, scale, states, grad, constVars, jacVars>>

DcostDparams ==
    \E n \in 1..2, params \in ParamsInputs, step \in Steps :
        /\ grad' = [called |-> TRUE, params |-> params,
                    out |-> dcost_dparams(Instance(n), params, states, step)]
        /\ UNCHANGED <<fs, fs_k, scale, states, ret, constVars, jacVars>>

Next == Evolve \/ Cost \/ DcostDparams

Spec == Init /\ [][Next]_vars

(* ----------------------- ForbidStates: properties ----------------------- *)
Called(r) == r.exc # "not called"
N_(self) == self.total_state_normalization_constant
EveryStateHasForbidden(self) ==
    \A i \in 1..N_(self) : self.state_normalization_constants[i] >= 1

\* sum over j >= from of F[i][j], the fidelities of one evolving state
RECURSIVE FidelitySum(_, _, _)
FidelitySum(daggers, state, from) ==
    IF from > Len(daggers) THEN Zero
    ELSE RAdd(square_abs_00(matmul(daggers[from], state)),
              FidelitySum(daggers, state, from + 1))

\* sum over i >= from of (sum over j of F[i][j]) / M_i
RECURSIVE NormalizedSum(_, _, _)
NormalizedSum(self, states_, from) ==
    IF from > N_(self) THEN Zero
    ELSE RAdd(RDiv(FidelitySum(self.forbidden_states_dagger[from], states_[from], 1),
                   IntRat(self.state_normalization_constants[from])),
              NormalizedSum(self, states_, from + 1))

NormalizedFidelity(self, states_) ==
    RMul(self.cost_multiplier,
         RDiv(NormalizedSum(self, states_, 1),
              IntRat(N_(self) * self.step_normalization_constant)))

\* C1: with M_i >= 1 for every i, cost returns
\* c * (sum_i (sum_j F[i][j]) / M_i) / (N * S): every forbidden state
\* contributes its own fidelity and no index depends on another.
C1_CostIsNormalizedFidelitySum ==
    \A n \in 1..2 :
        (/\ EveryStateHasForbidden(Instance(n))
         /\ Len(states) = N_(Instance(n))
         /\ Called(ret[n]))
        => ret[n] = Returned(NormalizedFidelity(Instance(n), states))

test_instance ==
    ForbidStates_init(test_forbidden_states, test_step_count, default_cost_multiplier)

C3_NoNaNWithoutForbidden ==
    \A n \in 1..2 :
        (~EveryStateHasForbidden(Instance(n)) /\ ret[n].exc = "none")
            => ~IsNaN(ret[n].val)

\* C5: when the number of states passed differs from the number N of
\* forbidden-state lists, cost fails with an error (stated for instances
\* whose every list is non-empty, so that no NaN is involved).
C5_StateCountMismatchFails ==
    \A n \in 1..2 :
        (/\ EveryStateHasForbidden(Instance(n))
         /\ Len(states) # N_(Instance(n)) /\ Called(ret[n]))
            => ret[n].exc # "none"

\* C6: dcost_dparams returns an array of the shape of params, all zero.
C6_ZeroGradient ==
    grad.called =>
        /\ grad.out.shape = grad.params.shape
        /\ Len(grad.out.data) = Product(grad.params.shape)
        /\ \A k \in DOMAIN grad.out.data : grad.out.data[k] = 0

C6_Witness ==
    /\ grad.called /\ grad.params.shape = <<1, 2>>
    /\ grad.params.data = <<1, 2>> /\ grad.out.data = <<0, 0>>

\* C7: with the same forbidden states, step count and states, the instance
\* whose multiplier is k * c returns k times the cost of the instance whose
\* multiplier is c.
C7_CostScalesWithMultiplier ==
    (/\ EveryStateHasForbidden(fs)
     /\ ret[1].exc = "none" /\ ret[2].exc = "none")
        => ret[2].val = RMul(scale, ret[1].val)

C7_Witness ==
    /\ EveryStateHasForbidden(fs)
    /\ ret[1].exc = "none" /\ ret[2].exc = "none"
    /\ ret[1].val[1] > 0 /\ ret[2].val # ret[1].val

\* a step that is a cost or dcost_dparams call: Evolve leaves no result behind
CallStep == (\E n \in 1..2 : Called(ret'[n])) \/ grad'.called

\* C10: a cost or dcost_dparams call leaves the fields of both instances and
\* the states array as they were, and a cost call on the states an earlier
\* call was made on returns what that call returned, whatever the step and
\* whatever calls were made in between.
C10_CallsArePure ==
    [][CallStep =>
        /\ fs' = fs /\ fs_k' = fs_k /\ states' = states
        /\ \A n \in 1..2 : (Called(ret[n]) /\ Called(ret'[n])) => ret'[n] = ret[n]]_vars

C10_Witness ==
    /\ ret[1].exc = "none" /\ ret[2].exc = "none" /\ grad.called
    /\ ret[1].val[1] > 0

(* ------------------------- constants: behaviour ------------------------- *)
ForbidStatesUnused ==
    /\ fs = test_instance /\ fs_k = test_instance /\ scale = IntRat(1)
    /\ states = test_states
    /\ ret = [n \in 1..2 |-> NotCalled]
    /\ grad = NoGrad

InitConstants ==
    /\ size \in 1..MaxSize
    /\ creation_operator = NotComputed
    /\ annihilation_operator = NotComputed
    /\ eij = NoEij
    /\ ForbidStatesUnused /\ JacobianUnused

GetCreationOperator ==
    /\ creation_operator' = get_creation_operator(size)
    /\ UNCHANGED <<size, annihilation_operator, eij, fsVars, jacVars>>

GetAnnihilationOperator ==
    /\ annihilation_operator' = get_annihilation_operator(size)
    /\ UNCHANGED <<size, creation_operator, eij, fsVars, jacVars>>

GetEij ==
    \E i \in 0..(size - 1), j \in 0..(size - 1) :
        /\ eij' = [called |-> TRUE, i |-> i, j |-> j] @@ get_eij(i, j, size)
        /\ UNCHANGED <<size, creation_operator, annihilation_operator, fsVars, jacVars>>

NextConstants == GetCreationOperator \/ GetAnnihilationOperator \/ GetEij

SpecConstants == InitConstants /\ [][NextConstants]_vars

\* C4: get_eij(i, j, size) with 0 <= i, j < size completes and returns the
\* size x size matrix with 1 at row i, column j and 0 elsewhere.
C4_EijIsUnitMatrix ==
    eij.called =>
        /\ eij.exc = "none"
        /\ eij.val = [r \in 1..size |-> [c \in 1..size |->
                        IF r = eij.i + 1 /\ c = eij.j + 1 THEN 1 ELSE 0]]

IsSquare(M, n) == Len(M) = n /\ \A r \in 1..n : Len(M[r]) = n

\* C8: the creation operator has sqrt(k) at (row k, column k-1), k = 1..size-1
\* (rows and columns counted from 0), the annihilation operator has the same
\* sqrt(k) at (row k-1, column k), both are size x size and 0 elsewhere, so
\* each is the transpose of the other; for size 1 both are the zero matrix.
C8_CreationIsAnnihilationTransposed ==
    (creation_operator # NotComputed /\ annihilation_operator # NotComputed) =>
        /\ IsSquare(creation_operator, size) /\ IsSquare(annihilation_operator, size)
        /\ \A r \in 0..(size - 1), c \in 0..(size - 1) :
            /\ creation_operator[r + 1][c + 1] =
                    (IF c = r - 1 THEN RealSqrt(r) ELSE RealSqrt(0))
            /\ annihilation_operator[r + 1][c + 1] =
                    (IF r = c - 1 THEN RealSqrt(c) ELSE RealSqrt(0))
            /\ creation_operator[r + 1][c + 1] = annihilation_operator[c + 1][r + 1]

C8_Witness ==
    /\ size >= 3
    /\ creation_operator # NotComputed /\ annihilation_operator # NotComputed
    /\ creation_operator[3][2] = RealSqrt(2) /\ annihilation_operator[2][3] = RealSqrt(2)

(* -------------------------- jacobian: behaviour ------------------------- *)
XValues == {-1, 0, 1, 2}
XShapes == {<<>>} \cup {<<n>> : n \in 1..MaxLen}
XInputs ==
    UNION {{[shape |-> sh, data |-> d] : d \in [1..Product(sh) -> XValues]} :
           sh \in XShapes}

InitJacobian ==
    /\ fun \in Functions
    /\ arg \in XInputs
    /\ jac = NotComputed
    /\ ForbidStatesUnused /\ ConstantsUnused

AnsJacobian ==
    /\ jac = NotComputed
    /\ jac' = ans_jacobian(fun, arg)
    /\ UNCHANGED <<fun, arg, fsVars, constVars>>

\* the caller moves to another point
NewArgument ==
    /\ jac # NotComputed
    /\ \E a \in XInputs : Len(a.data) = Len(arg.data) /\ arg' = a
    /\ jac' = NotComputed
    /\ UNCHANGED <<fun, fsVars, constVars>>

NextJacobian == AnsJacobian \/ NewArgument

SpecJacobian == InitJacobian /\ [][NextJacobian]_vars

\* x with 1 added at entry k (d = 1) or subtracted (d = -1)
Shifted(a, k, d) == [a EXCEPT !.data[k] = @ + d]

\* the partial derivative of output component o with respect to input
\* component i: every function here is a polynomial of degree <= 2 in each
\* entry, for which the central difference is exact
Partial(f, a, o, i) ==
    (Apply(f, Shifted(a, i, 1)).data[o] - Apply(f, Shifted(a, i, -1)).data[o]) \div 2

\* C9: ans_jacobian returns (f(x), J); J has the shape of f(x) followed by
\* the shape of x, and J[o][i] is the partial derivative of output o with
\* respect to input i; for f(x) = x^2 on a vector J is diag(2 x_k).
C9_ValueAndJacobian ==
    jac # NotComputed =>
        LET n_in == Len(arg.data)
            n_out == Len(Apply(fun, arg).data)
            J == jac.jacobian
        IN  /\ jac.ans = Apply(fun, arg)
            /\ J.exc = "none"
            /\ J.shape = jac.ans.shape \o arg.shape
            /\ Len(J.data) = n_out * n_in
            /\ \A o \in 1..n_out, i \in 1..n_in :
                    J.data[(o - 1) * n_in + i] = Partial(fun, arg, o, i)
            /\ fun = "square" =>
                \A o \in 1..n_in, i \in 1..n_in :
                    J.data[(o - 1) * n_in + i] = (IF o = i THEN 2 * arg.data[o] ELSE 0)

C9_Witness ==
    /\ jac # NotComputed /\ fun = "square" /\ arg.shape = <<2>>
    /\ arg.data = <<2, -1>> /\ jac.ans.data = <<4, 1>>
    /\ jac.jacobian.shape = <<2, 2>> /\ jac.jacobian.data = <<4, 0, 0, -2>>

====
